---------------------------- MODULE Spec2Model ----------------------------
(***************************************************************************)
(* Readability gate for Markdown documents.                                *)
(*                                                                         *)
(*   commit_readability_history.py  markdown_to_text, calculate_readability,*)
(*                                  analyze_readability and the git helpers *)
(*   check_readability.py           the pre-commit gate (main)              *)
(*                                                                         *)
(* Text is a sequence of characters, each a string.  Numbers of the metric     *)
(* table and raw metric values are kept in tenths (4.9 is 49), weights as  *)
(* their five base-100 digits after the decimal point, and the composite   *)
(* score as an exact fixed-point number, so that no rounding enters.       *)
(***************************************************************************)
EXTENDS Integers, Sequences, FiniteSets, TLC

VARIABLES
    prog,                 \* which program runs: "normalize", "score", "gate", "history"
    pc,                   \* position of the program
    exit_status,          \* -1 while running or returned normally, else sys.exit's argument
    markdown_string,      \* argument of markdown_to_text / calculate_readability
    text,                 \* result of markdown_to_text
    scores,               \* raw metric values of the last scoring call (tenths)
    composite,            \* result of the last scoring call
    readability_metrics,  \* the module-level metric table
    world,                \* what the program is run on: the document's segments,
                          \* or what git and the working tree hold
    markdown_files,       \* gate: the staged .md files
    idx,                  \* loop position (files of the gate, commits of the history)
    failed,               \* gate: the failed flag
    results,              \* gate: scores printed so far; history: result entries
    stderr                \* warnings and errors printed

vars == <<prog, pc, exit_status, markdown_string, text, scores, composite,
          readability_metrics, world, markdown_files, idx, failed, results, stderr>>

-----------------------------------------------------------------------------
(* Bounds of the model *)

MaxOffset == 1      \* raw metric values lie within this many tenths of a calibration bound
MaxSegments == 3    \* segments (lines or fenced blocks) of a generated document
MaxContent == 1     \* content lines of a generated fenced block
MaxFiles == 3       \* names git reports as staged
MaxCommits == 3     \* commits git log reports

-----------------------------------------------------------------------------
(* Arithmetic helpers *)

Abs(n) == IF n < 0 THEN -n ELSE n

Sign(n) == IF n < 0 THEN -1 ELSE IF n > 0 THEN 1 ELSE 0

RECURSIVE GCD(_, _)
GCD(a, b) == IF b = 0 THEN a ELSE GCD(b, a % b)

LCM(a, b) == (a \div GCD(a, b)) * b

Min2(a, b) == IF a < b THEN a ELSE b

Max2(a, b) == IF a < b THEN b ELSE a

-----------------------------------------------------------------------------
(* The metric table and the composite score (commit_readability_history.py) *)

\* The keys of readability_metrics in the order the dict literal lists them.
MetricNames ==
    << "flesch_reading_ease", "gunning_fog", "coleman_liau_index",
       "automated_readability_index", "dale_chall_readability_score" >>

Metrics == { MetricNames[i] : i \in 1..Len(MetricNames) }

\* The dict literal.  weight 0.1653977378 is <<16, 53, 97, 73, 78>>;
\* min and max are in tenths.
MetricTable ==
    [ flesch_reading_ease          |-> [weight |-> <<16, 53, 97, 73, 78>>, min |-> 0,   max |-> 1000],
      gunning_fog                  |-> [weight |-> <<22, 28, 36, 72, 77>>, min |-> 190, max |-> 60],
      coleman_liau_index           |-> [weight |-> <<18, 31, 72, 34, 11>>, min |-> 190, max |-> 60],
      automated_readability_index  |-> [weight |-> <<23, 25, 29, 2, 36>>,  min |-> 220, max |-> 60],
      dale_chall_readability_score |-> [weight |-> <<19, 60, 64, 16, 98>>, min |-> 110, max |-> 49] ]

\* One base-100 digit of a weight, and the fraction digits below the integer
\* part of a fixed-point number (four base-100 digits).
Base == 100
FracUnit == Base * Base * Base * Base

\* A plausible slip: the bound that is subtracted is left out.
normalize_score_no_offset(score, min_val, max_val) ==
    [num |-> score, den |-> max_val - min_val]

\* A plausible slip: the scale is taken as its size, losing the inverted
\* orientation of a metric whose min exceeds its max.
normalize_score_unsigned(score, min_val, max_val) ==
    [num |-> score - min_val, den |-> Abs(max_val - min_val)]

\* (score - min_val) / (max_val - min_val), as an exact fraction.
normalize_score(score, min_val, max_val) ==
    [num |-> score - min_val, den |-> max_val - min_val]

\* The common denominator of the normalized scores under table tbl.
RECURSIVE ScaleUpTo(_, _)
ScaleUpTo(tbl, i) ==
    IF i = 0 THEN 1
    ELSE LCM(ScaleUpTo(tbl, i - 1),
             Abs(tbl[MetricNames[i]].max - tbl[MetricNames[i]].min))

Scale(tbl) == ScaleUpTo(tbl, Len(MetricNames))

\* weight * k * 100 for a weight given by its digits and an integer k, as the
\* fixed-point number hi + lo / FracUnit with 0 <= lo < FracUnit.
TimesWeight(weight, k) ==
    LET t5 == weight[5] * k
        t4 == weight[4] * k + (t5 \div Base)
        t3 == weight[3] * k + (t4 \div Base)
        t2 == weight[2] * k + (t3 \div Base)
    IN  [hi |-> weight[1] * k + (t2 \div Base),
         lo |-> (((t2 % Base) * Base + (t3 % Base)) * Base + (t4 % Base)) * Base
                + (t5 % Base)]

FixAdd(a, b) ==
    [hi |-> a.hi + b.hi + ((a.lo + b.lo) \div FracUnit),
     lo |-> (a.lo + b.lo) % FracUnit]

\* weight * normalized_score * 100 of one metric, in units of 1 / scale.
WeightedNormalized(values, score, scale) ==
    LET n == normalize_score(score, values.min, values.max)
    IN  TimesWeight(values.weight, Sign(n.den) * n.num * (scale \div Abs(n.den)))

\* weighted_normalized_score_sum after the first i metrics of the loop.
RECURSIVE WeightedSum(_, _, _, _)
WeightedSum(tbl, raw, scale, i) ==
    IF i = 0 THEN [hi |-> 0, lo |-> 0]
    ELSE FixAdd(WeightedSum(tbl, raw, scale, i - 1),
                WeightedNormalized(tbl[MetricNames[i]], raw[MetricNames[i]], scale))

\* composite_score: the number (hi + lo / FracUnit) / scale.
CompositeScore(tbl, raw) ==
    LET s == WeightedSum(tbl, raw, Scale(tbl), Len(MetricNames))
    IN  [hi |-> s.hi, lo |-> s.lo, scale |-> Scale(tbl)]

\* Comparisons of a composite score with an integer n and with another score
\* of the same scale.
ScoreLess(c, n) == c.hi < n * c.scale
ScoreAtLeast(c, n) == ~ScoreLess(c, n)
ScoreEquals(c, n) == c.hi = n * c.scale /\ c.lo = 0
ScoreAtMost(c, n) == ScoreLess(c, n) \/ ScoreEquals(c, n)
ScoreBelow(a, b) == a.hi < b.hi \/ (a.hi = b.hi /\ a.lo < b.lo)

NoScore == [hi |-> 0, lo |-> 0, scale |-> 0]
NoScores == [m \in Metrics |-> 0]

-----------------------------------------------------------------------------
(* Text: sequences of characters *)

NL == "\n"

Letters ==
    { "a", "b", "c", "d", "e", "f", "g", "h", "i", "j", "k", "l", "m",
      "n", "o", "p", "q", "r", "s", "t", "u", "v", "w", "x", "y", "z",
      "A", "B", "C", "D", "E", "F", "G", "H", "I", "J", "K", "L", "M",
      "N", "O", "P", "Q", "R", "S", "T", "U", "V", "W", "X", "Y", "Z" }

\* [a-zA-Z]
IsAlpha(c) == c \in Letters

\* \s, for the characters of the model
IsSpace(c) == c \in {" ", NL}

\* The least element of a set of positions, 0 when there is none.
First(S) == IF S = {} THEN 0 ELSE CHOOSE m \in S : \A n \in S : m <= n

\* Whether pattern pat occurs in s at position p.
At(s, p, pat) ==
    /\ p >= 1
    /\ p + Len(pat) - 1 <= Len(s)
    /\ \A k \in 1..Len(pat) : s[p + k - 1] = pat[k]

Contains(s, pat) == \E p \in 1..Len(s) : At(s, p, pat)

\* The first position at or after p that holds no whitespace (Len(s) + 1 at the end).
SkipSpace(s, p) ==
    First({ q \in p..(Len(s) + 1) : q = Len(s) + 1 \/ ~IsSpace(s[q]) })

\* str.strip()
Strip(s) ==
    LET keep == { q \in 1..Len(s) : ~IsSpace(s[q]) }
    IN  IF keep = {} THEN << >>
        ELSE SubSeq(s, First(keep), CHOOSE m \in keep : \A n \in keep : n <= m)

AllSpace(s) == \A q \in 1..Len(s) : IsSpace(s[q])

RECURSIVE Concat(_)
Concat(ss) == IF ss = << >> THEN << >> ELSE Head(ss) \o Concat(Tail(ss))

\* str.split("\n")
RECURSIVE SplitLines(_)
SplitLines(s) ==
    LET n == First({ q \in 1..Len(s) : s[q] = NL })
    IN  IF n = 0 THEN << s >>
        ELSE << SubSeq(s, 1, n - 1) >> \o SplitLines(SubSeq(s, n + 1, Len(s)))

\* "\n".join(lines)
RECURSIVE JoinLines(_)
JoinLines(lines) ==
    IF lines = << >> THEN << >>
    ELSE IF Len(lines) = 1 THEN lines[1]
    ELSE lines[1] \o << NL >> \o JoinLines(Tail(lines))

-----------------------------------------------------------------------------
(* markdown_to_text, step 1: the fenced-code regular expression *)

\* The backtick character (a string literal cannot hold it).
BT == "BACKTICK"

Fence == << BT, BT, BT >>

\* ^ under re.MULTILINE
LineStart(s, p) == p = 1 \/ s[p - 1] = NL

\* The opening part of the pattern at p (a line start or a newline, optional
\* whitespace, three backticks, the rest of the line and its newline): the
\* position after that newline, 0 when the part does not match at p.
OpenFenceAt(s, p) ==
    IF ~(LineStart(s, p) \/ (p <= Len(s) /\ s[p] = NL)) THEN 0
    ELSE LET q == SkipSpace(s, p)
         IN  IF ~At(s, q, Fence) THEN 0
             ELSE LET e == First({ r \in (q + 3)..Len(s) : s[r] = NL })
                  IN  IF e = 0 THEN 0 ELSE e + 1

\* The rest of the pattern from position c (as few characters as possible, a
\* newline, optional whitespace, three backticks): the position after the
\* closing backticks, 0 when there is no match.
CloseFenceFrom(s, c) ==
    LET r == First({ r \in c..Len(s) :
                       s[r] = NL /\ At(s, SkipSpace(s, r + 1), Fence) })
    IN  IF r = 0 THEN 0 ELSE SkipSpace(s, r + 1) + 3

\* The whole pattern at p: the position after the match, 0 when it fails.
FenceMatchAt(s, p) ==
    LET c == OpenFenceAt(s, p)
    IN  IF c = 0 THEN 0 ELSE CloseFenceFrom(s, c)

\* re.sub(pattern, "\n", s): leftmost matches, left to right, not overlapping.
RECURSIVE SubFences(_, _)
SubFences(s, p) ==
    IF p > Len(s) THEN << >>
    ELSE LET e == FenceMatchAt(s, p)
         IN  IF e = 0 THEN << s[p] >> \o SubFences(s, p + 1)
             ELSE << NL >> \o SubFences(s, e)

StripFences(s) == SubFences(s, 1)

-----------------------------------------------------------------------------
(* markdown_to_text, step 2: markdown(markdown_string) and BeautifulSoup     *)
(*                                                                         *)
(* markdown() is called without extensions, so it knows paragraphs, ATX    *)
(* headings, emphasis and inline code spans, and neither fenced code       *)
(* blocks nor pipe tables.  The rendered document is a sequence of nodes   *)
(* [tag, strings]: a block element with the text nodes below it in         *)
(* document order, or (tag "") the newline text node between two           *)
(* elements.  The inputs of the model hold no links, lists, quotes, rules, *)
(* images or raw HTML.                                                     *)

Star == "*"
Hash == "#"

\* The run of character c that starts at p.
RunLength(s, p, c) ==
    First({ n \in 0..(Len(s) - p + 1) : p + n > Len(s) \/ s[p + n] # c })

\* The inline code pattern at p with an opening run of n backticks: the
\* position of the closing run (n backticks, not preceded and not followed by
\* a backtick, after at least one character), 0 when there is none.
CodeCloseAt(s, p, n) ==
    First({ j \in (p + n + 1)..Len(s) :
              /\ \A k \in 0..(n - 1) : j + k <= Len(s) /\ s[j + k] = BT
              /\ s[j - 1] # BT
              /\ (j + n > Len(s) \/ s[j + n] # BT) })

\* The longest opening run at p for which the pattern matches, 0 for none.
CodeOpenAt(s, p) ==
    LET ns == { n \in 1..RunLength(s, p, BT) : CodeCloseAt(s, p, n) # 0 }
    IN  IF ns = {} THEN 0 ELSE CHOOSE n \in ns : \A m \in ns : m <= n

\* Strong emphasis at p: two stars, at least one character, two stars; the
\* position of the closing stars, 0 for none.
StrongCloseAt(s, p) ==
    IF ~At(s, p, << Star, Star >>) THEN 0
    ELSE First({ j \in (p + 3)..Len(s) : At(s, j, << Star, Star >>) })

\* Emphasis at p: a star, at least one character that is no star, a star.
EmCloseAt(s, p) ==
    IF ~At(s, p, << Star >>) THEN 0
    ELSE LET j == First({ j \in (p + 1)..Len(s) : s[j] = Star })
         IN  IF j < p + 2 THEN 0 ELSE j

\* The text nodes of a text without code spans.
RECURSIVE EmphasisStrings(_)
EmphasisStrings(s) ==
    LET p == First({ q \in 1..Len(s) : StrongCloseAt(s, q) # 0 \/ EmCloseAt(s, q) # 0 })
    IN  IF p = 0 THEN << s >>
        ELSE IF StrongCloseAt(s, p) # 0
        THEN << SubSeq(s, 1, p - 1) >>
             \o EmphasisStrings(SubSeq(s, p + 2, StrongCloseAt(s, p) - 1))
             \o EmphasisStrings(SubSeq(s, StrongCloseAt(s, p) + 2, Len(s)))
        ELSE << SubSeq(s, 1, p - 1) >>
             \o EmphasisStrings(SubSeq(s, p + 1, EmCloseAt(s, p) - 1))
             \o EmphasisStrings(SubSeq(s, EmCloseAt(s, p) + 1, Len(s)))

\* The text nodes of a block's text: code spans are found first, and the
\* text of a code element is the stripped content of the span.
RECURSIVE InlineStrings(_)
InlineStrings(s) ==
    LET p == First({ q \in 1..Len(s) : s[q] = BT /\ CodeOpenAt(s, q) # 0 })
    IN  IF p = 0 THEN EmphasisStrings(s)
        ELSE LET n == CodeOpenAt(s, p)
                 j == CodeCloseAt(s, p, n)
             IN  EmphasisStrings(SubSeq(s, 1, p - 1))
                 \o << Strip(SubSeq(s, p + n, j - 1)) >>
                 \o InlineStrings(SubSeq(s, j + n, Len(s)))

HeadingTags == << "h1", "h2", "h3", "h4", "h5", "h6" >>

IsHeadingLine(line) == Len(line) >= 1 /\ line[1] = Hash

\* The element of a heading line: up to six hashes give the level, the rest
\* of the line without closing hashes is the heading's text.
HeadingNode(line) ==
    LET level == Min2(RunLength(line, 1, Hash), Len(HeadingTags))
        rest == SubSeq(line, level + 1, Len(line))
        keep == { q \in 1..Len(rest) : rest[q] # Hash }
        body == IF keep = {} THEN << >>
                ELSE SubSeq(rest, 1, CHOOSE m \in keep : \A n \in keep : n <= m)
    IN  [tag |-> HeadingTags[level], strings |-> InlineStrings(Strip(body))]

\* The lines of the paragraph that starts at the head of lines.
ParagraphLength(lines) ==
    LET stop == First({ q \in 1..Len(lines) :
                          AllSpace(lines[q]) \/ IsHeadingLine(lines[q]) })
    IN  IF stop = 0 THEN Len(lines) ELSE stop - 1

\* The block elements of a document given by its lines.
RECURSIVE BlockNodes(_)
BlockNodes(lines) ==
    IF lines = << >> THEN << >>
    ELSE IF AllSpace(lines[1]) THEN BlockNodes(Tail(lines))
    ELSE IF IsHeadingLine(lines[1])
         THEN << HeadingNode(lines[1]) >> \o BlockNodes(Tail(lines))
    ELSE LET n == ParagraphLength(lines)
         IN  << [tag |-> "p",
                 strings |-> InlineStrings(Strip(JoinLines(SubSeq(lines, 1, n))))] >>
             \o BlockNodes(SubSeq(lines, n + 1, Len(lines)))

\* The serialized elements are separated by a newline, which the HTML parser
\* reads as a text node of its own.
RECURSIVE Interleave(_)
Interleave(nodes) ==
    IF Len(nodes) <= 1 THEN nodes
    ELSE << nodes[1], [tag |-> "", strings |-> << << NL >> >>] >>
         \o Interleave(Tail(nodes))

\* BeautifulSoup(markdown(s), "html.parser")
Soup(s) == Interleave(BlockNodes(SplitLines(s)))

\* Line 62: the tags whose elements are decomposed.
Unwanted ==
    { "table", "script", "blockquote", "hr", "img", "ul", "ol", "li",
      "h1", "h2", "h3", "h4", "h5", "h6" }

Decompose(soup) == SelectSeq(soup, LAMBDA node : node.tag \notin Unwanted)

\* soup.stripped_strings: every text node stripped, the empty ones left out.
RECURSIVE StrippedOf(_)
StrippedOf(strings) ==
    IF strings = << >> THEN << >>
    ELSE (IF Strip(Head(strings)) = << >> THEN << >> ELSE << Strip(Head(strings)) >>)
         \o StrippedOf(Tail(strings))

RECURSIVE StrippedStrings(_)
StrippedStrings(soup) ==
    IF soup = << >> THEN << >>
    ELSE StrippedOf(Head(soup).strings) \o StrippedStrings(Tail(soup))

-----------------------------------------------------------------------------
(* markdown_to_text, lines 69 to 73 *)

\* Line 70: each template tag, from an opening brace-percent to the nearest
\* closing percent-brace, is removed.
RECURSIVE RemoveTemplateTags(_)
RemoveTemplateTags(s) ==
    LET opens == { q \in 1..Len(s) :
                     /\ At(s, q, << "{", "%" >>)
                     /\ \E e \in (q + 2)..Len(s) : At(s, e, << "%", "}" >>) }
        p == First(opens)
        e == First({ e \in (p + 2)..Len(s) : At(s, e, << "%", "}" >>) })
    IN  IF p = 0 THEN s
        ELSE SubSeq(s, 1, p - 1) \o RemoveTemplateTags(SubSeq(s, e + 2, Len(s)))

\* Line 71: a run of newlines becomes one newline.
RECURSIVE CollapseNewlines(_)
CollapseNewlines(s) ==
    IF s = << >> THEN << >>
    ELSE IF Head(s) = NL
         THEN << NL >> \o CollapseNewlines(SubSeq(s, 1 + RunLength(s, 1, NL), Len(s)))
    ELSE << Head(s) >> \o CollapseNewlines(Tail(s))

\* Line 72: a newline that follows a letter becomes a space.
Unwrap(s) ==
    [ q \in 1..Len(s) |->
        IF s[q] = NL /\ q > 1 /\ IsAlpha(s[q - 1]) THEN " " ELSE s[q] ]

markdown_to_text(s) ==
    Unwrap(CollapseNewlines(RemoveTemplateTags(
        Concat(StrippedStrings(Decompose(Soup(StripFences(s))))))))

-----------------------------------------------------------------------------
(* Documents *)

ProseLine == << "A", "b", " ", "c", "d" >>
SentenceLine == << "E", "f", "." >>
HeadingLine == << Hash, " ", "H", "e", "a", "d", "i", "n", "g" >>
BoldLine == << "S", "o", "m", "e", " ", Star, Star, "b", "o", "l", "d", Star, Star, " ", "t", "e", "x", "t", "." >>
TemplateLine == << "{", "%", " ", "t", " ", "%", "}" >>
TableHeader == << "|", " ", "a", " ", "|", " ", "b", " ", "|" >>
TableDelimiter == << "|", "-", "-", "-", "|", "-", "-", "-", "|" >>
TableRow == << "|", " ", "1", " ", "|", " ", "2", " ", "|" >>
CodeLine == << "q" >>
LanguageTag == << "p", "y" >>

\* A segment is a line or a fenced code block: an opening fence with or
\* without a language tag, lines content lines, a closing fence.
LineSegments ==
    { [kind |-> "line", lines |-> << l >>] :
        l \in { << >>, ProseLine, SentenceLine, HeadingLine, BoldLine, TemplateLine,
                TableHeader, TableDelimiter, TableRow } }

FencedBlock(tag, n) ==
    [kind |-> "block",
     lines |-> << Fence \o tag >> \o [ i \in 1..n |-> CodeLine ] \o << Fence >>]

BlockSegments ==
    { FencedBlock(tag, n) : tag \in { << >>, LanguageTag }, n \in 0..MaxContent }

Segments == LineSegments \cup BlockSegments

SegmentLists == UNION { [1..n -> Segments] : n \in 0..MaxSegments }

RECURSIVE SegmentLines(_)
SegmentLines(segs) ==
    IF segs = << >> THEN << >> ELSE Head(segs).lines \o SegmentLines(Tail(segs))

Document(segs) == JoinLines(SegmentLines(segs))

-----------------------------------------------------------------------------
(* Raw metric values: what textstat answers, a black box of the model *)

\* The raw values of metric m the model draws from: 0, the two calibration
\* bounds, the value halfway between them, and the values up to MaxOffset
\* tenths beyond either bound.
RawValues(m) ==
    LET lo == Min2(MetricTable[m].min, MetricTable[m].max)
        hi == Max2(MetricTable[m].min, MetricTable[m].max)
    IN  { 0, lo, hi, (lo + hi) \div 2 }
        \cup { lo - d : d \in 1..MaxOffset }
        \cup { hi + d : d \in 1..MaxOffset }

RawGrid ==
    [ flesch_reading_ease          : RawValues("flesch_reading_ease"),
      gunning_fog                  : RawValues("gunning_fog"),
      coleman_liau_index           : RawValues("coleman_liau_index"),
      automated_readability_index  : RawValues("automated_readability_index"),
      dale_chall_readability_score : RawValues("dale_chall_readability_score") ]

AllAtMax == [ m \in Metrics |-> MetricTable[m].max ]
AllAtMin == [ m \in Metrics |-> MetricTable[m].min ]

-----------------------------------------------------------------------------
(* calculate_readability (commit_readability_history.py) *)

\* A plausible slip: the loop keeps each metric's raw score in the shared
\* table entry.
CalculateReadabilityStoring(content, raw) ==
    /\ markdown_string' = content
    /\ text' = markdown_to_text(content)
    /\ scores' = raw
    /\ composite' = CompositeScore(readability_metrics, raw)
    /\ readability_metrics' =
         [ m \in Metrics |->
             [weight |-> readability_metrics[m].weight,
              min |-> readability_metrics[m].min,
              max |-> readability_metrics[m].max,
              score |-> raw[m]] ]

\* One call: content is the argument, raw what textstat answers for the
\* normalized text.
CalculateReadability(content, raw) ==
    /\ markdown_string' = content
    /\ text' = markdown_to_text(content)
    /\ scores' = raw
    /\ composite' = CompositeScore(readability_metrics, raw)
    /\ readability_metrics' = readability_metrics

-----------------------------------------------------------------------------
(* The programs *)

Running == -1

Idle ==
    /\ exit_status = Running
    /\ text = << >>
    /\ scores = NoScores
    /\ composite = NoScore
    /\ readability_metrics = MetricTable
    /\ markdown_files = << >>
    /\ idx = 0
    /\ failed = FALSE
    /\ results = << >>
    /\ stderr = << >>

(* markdown_to_text on a document *)

InitNormalizer ==
    /\ prog = "normalize"
    /\ pc = "start"
    /\ world \in SegmentLists
    /\ markdown_string = Document(world)
    /\ Idle

Normalize ==
    /\ prog = "normalize"
    /\ pc = "start"
    /\ text' = markdown_to_text(markdown_string)
    /\ pc' = "done"
    /\ UNCHANGED <<prog, exit_status, markdown_string, scores, composite,
                   readability_metrics, world, markdown_files, idx, failed,
                   results, stderr>>

NextNormalizer == Normalize

SpecNormalizer == InitNormalizer /\ [][NextNormalizer]_vars

(* calculate_readability on a document *)

ScoredDocuments ==
    { Document(<< [kind |-> "line", lines |-> << HeadingLine >>] >>),
      Document(<< [kind |-> "line", lines |-> << SentenceLine >>] >>) }

InitScorer ==
    /\ prog = "score"
    /\ pc = "start"
    /\ world = << >>
    /\ markdown_string \in ScoredDocuments
    /\ Idle

Score ==
    /\ prog = "score"
    /\ pc = "start"
    /\ \E raw \in RawGrid : CalculateReadability(markdown_string, raw)
    /\ pc' = "done"
    /\ UNCHANGED <<prog, exit_status, world, markdown_files, idx, failed,
                   results, stderr>>

NextScorer == Score

SpecScorer == InitScorer /\ [][NextScorer]_vars

-----------------------------------------------------------------------------
(* Files and commits the gate and the history analysis are run on *)

\* A file content with the raw values textstat answers for it.
Contents ==
    { [content |-> Document(<< [kind |-> "line", lines |-> << SentenceLine >>] >>),
       raw |-> AllAtMax],
      [content |-> Document(<< [kind |-> "line", lines |-> << ProseLine >>] >>),
       raw |-> AllAtMin],
      [content |-> Document(<< [kind |-> "line", lines |-> << HeadingLine >>] >>),
       raw |-> NoScores] }

\* A name git diff --cached reports: whether it ends in .md, whether open()
\* finds the file, and what the file holds.
StagedNames ==
    { [md |-> FALSE, exists |-> TRUE, holds |-> h] : h \in { CHOOSE c \in Contents : TRUE } }
    \cup { [md |-> TRUE, exists |-> FALSE, holds |-> h] : h \in { CHOOSE c \in Contents : TRUE } }
    \cup { [md |-> TRUE, exists |-> TRUE, holds |-> h] : h \in Contents }

\* A line of git log: whether its date parses, and what git show does for the
\* file at that commit ("ok", "empty": the file is empty there, "fail": git
\* show ends with an error).
CommitEntries ==
    { [date_ok |-> d, show |-> sh, holds |-> h] :
        d \in BOOLEAN, sh \in {"ok", "empty", "fail"},
        h \in { CHOOSE c \in Contents : TRUE } }

ListsOf(S, n) == UNION { [1..k -> S] : k \in 0..n }

-----------------------------------------------------------------------------
(* check_readability.py *)

THRESHOLD == 50

\* Lines 8 to 22: the staged names with the extension, or sys.exit(1) when
\* git fails.
get_staged_files(w) ==
    IF w.git_ok
    THEN [kind |-> "return", value |-> SelectSeq(w.staged, LAMBDA f : f.md)]
    ELSE [kind |-> "exit", status |-> 1, message |-> "Error: Unable to get staged files."]

\* A plausible slip: the flag is assigned the last comparison.
FailedAfterLast(flag, score) == ScoreLess(score, THRESHOLD)

\* Lines 45 to 47: the failed flag after a file scored score.
FailedAfter(flag, score) == flag \/ ScoreLess(score, THRESHOLD)

InitGate ==
    /\ prog = "gate"
    /\ pc = "start"
    /\ world \in [git_ok : BOOLEAN, staged : ListsOf(StagedNames, MaxFiles)]
    /\ markdown_string = << >>
    /\ Idle

\* Lines 29 to 35.
GateStart ==
    /\ prog = "gate"
    /\ pc = "start"
    /\ LET r == get_staged_files(world)
       IN  IF r.kind = "exit"
           THEN /\ exit_status' = r.status
                /\ stderr' = Append(stderr, r.message)
                /\ pc' = "exited"
                /\ UNCHANGED <<markdown_files, idx, failed>>
           ELSE /\ markdown_files' = r.value
                /\ UNCHANGED stderr
                /\ IF r.value = << >>
                   THEN /\ exit_status' = 0
                        /\ pc' = "exited"
                        /\ UNCHANGED <<idx, failed>>
                   ELSE /\ failed' = FALSE
                        /\ idx' = 1
                        /\ pc' = "check"
                        /\ UNCHANGED exit_status
    /\ UNCHANGED <<prog, markdown_string, text, scores, composite,
                   readability_metrics, world, results>>

\* Lines 37 to 50: one pass of the loop over markdown_files.
CheckFile ==
    /\ prog = "gate"
    /\ pc = "check"
    /\ idx <= Len(markdown_files)
    /\ LET f == markdown_files[idx]
       IN  IF ~f.exists
           THEN /\ exit_status' = 1
                /\ pc' = "exited"
                /\ UNCHANGED <<markdown_string, text, scores, composite,
                               readability_metrics, idx, failed, results>>
           ELSE /\ CalculateReadability(f.holds.content, f.holds.raw)
                /\ results' = Append(results, composite')
                /\ failed' = FailedAfter(failed, composite')
                /\ idx' = idx + 1
                /\ UNCHANGED <<exit_status, pc>>
    /\ UNCHANGED <<prog, world, markdown_files, stderr>>

\* Lines 52 to 57.
GateEnd ==
    /\ prog = "gate"
    /\ pc = "check"
    /\ idx > Len(markdown_files)
    /\ exit_status' = IF failed THEN 1 ELSE 0
    /\ pc' = "exited"
    /\ UNCHANGED <<prog, markdown_string, text, scores, composite,
                   readability_metrics, world, markdown_files, idx, failed,
                   results, stderr>>

-----------------------------------------------------------------------------
(* commit_readability_history.py: analyze_readability and the git helpers *)

\* Lines 16 to 29: the command's output, or an error message and sys.exit(1)
\* when the command fails.  No CalledProcessError leaves the function.
run_git_command(ok, stdout) ==
    IF ok
    THEN [kind |-> "return", value |-> stdout]
    ELSE [kind |-> "exit", status |-> 1, message |-> "Error: Unable to run git command"]

\* Lines 31 to 36.
get_commit_history(w) == run_git_command(w.git_ok, w.commits)

\* Lines 38 to 44: the handler turns a CalledProcessError that leaves
\* run_git_command into a warning and the empty string.
get_file_content_at_commit(entry) ==
    LET r == run_git_command(entry.show # "fail",
                             IF entry.show = "ok" THEN entry.holds.content ELSE << >>)
    IN  IF r.kind = "raise"
        THEN [kind |-> "return", value |-> << >>,
              message |-> "Warning: Unable to retrieve content"]
        ELSE r

InitHistory ==
    /\ prog = "history"
    /\ pc = "start"
    /\ world \in [git_ok : BOOLEAN,
                  commits : ListsOf(CommitEntries, MaxCommits),
                  worktree : { [exists |-> e, holds |-> h] :
                                 e \in BOOLEAN, h \in { CHOOSE c \in Contents : TRUE } }]
    /\ markdown_string = << >>
    /\ Idle

\* Lines 117 and 118.
HistoryStart ==
    /\ prog = "history"
    /\ pc = "start"
    /\ LET r == get_commit_history(world)
       IN  IF r.kind = "exit"
           THEN /\ exit_status' = r.status
                /\ stderr' = Append(stderr, r.message)
                /\ pc' = "exited"
                /\ UNCHANGED idx
           ELSE /\ idx' = 1
                /\ pc' = "commits"
                /\ UNCHANGED <<exit_status, stderr>>
    /\ UNCHANGED <<prog, markdown_string, text, scores, composite,
                   readability_metrics, world, markdown_files, failed, results>>

\* Lines 120 to 136: one pass of the loop over the commits.
AnalyzeCommit ==
    /\ prog = "history"
    /\ pc = "commits"
    /\ idx <= Len(world.commits)
    /\ LET entry == world.commits[idx]
           r == get_file_content_at_commit(entry)
       IN  IF ~entry.date_ok
           THEN /\ stderr' = Append(stderr, "Warning: Invalid date format")
                /\ idx' = idx + 1
                /\ UNCHANGED <<exit_status, pc, markdown_string, text, scores,
                               composite, readability_metrics, results>>
           ELSE IF r.kind = "exit"
           THEN /\ exit_status' = r.status
                /\ stderr' = Append(stderr, r.message)
                /\ pc' = "exited"
                /\ UNCHANGED <<idx, markdown_string, text, scores, composite,
                               readability_metrics, results>>
           ELSE /\ stderr' = IF "message" \in DOMAIN r
                             THEN Append(stderr, r.message) ELSE stderr
                /\ idx' = idx + 1
                /\ UNCHANGED <<exit_status, pc>>
                /\ IF r.value # << >>
                   THEN /\ CalculateReadability(r.value, entry.holds.raw)
                        /\ results' = Append(results, [commit |-> idx, score |-> composite'])
                   ELSE UNCHANGED <<markdown_string, text, scores, composite,
                                    readability_metrics, results>>
    /\ UNCHANGED <<prog, world, markdown_files, failed>>

\* Lines 138 to 151: the working-tree entry, and the return.
AnalyzeWorktree ==
    /\ prog = "history"
    /\ pc = "commits"
    /\ idx > Len(world.commits)
    /\ IF world.worktree.exists
       THEN /\ CalculateReadability(world.worktree.holds.content, world.worktree.holds.raw)
            /\ results' = Append(results, [commit |-> "STAGED", score |-> composite'])
       ELSE UNCHANGED <<markdown_string, text, scores, composite,
                        readability_metrics, results>>
    /\ pc' = "returned"
    /\ UNCHANGED <<prog, exit_status, world, markdown_files, idx, failed, stderr>>

-----------------------------------------------------------------------------
(* The gate and the history analysis *)

Init == InitGate \/ InitHistory

Next ==
    \/ GateStart
    \/ CheckFile
    \/ GateEnd
    \/ HistoryStart
    \/ AnalyzeCommit
    \/ AnalyzeWorktree

Spec == Init /\ [][Next]_vars

-----------------------------------------------------------------------------
(* Properties of markdown_to_text, under SpecNormalizer *)

Normalized == prog = "normalize" /\ pc = "done"

HasBlock(segs) == \E i \in 1..Len(segs) : segs[i].kind = "block"

\* C1: when the document holds a fenced code block (with or without a
\* language tag, with zero or more content lines, at the start, in the middle
\* or at the end), the normalized text holds no backtick of a fence, no
\* language tag and no content line of a block.
C1_FencedBlocksAbsent ==
    (Normalized /\ HasBlock(world)) =>
        /\ ~Contains(text, << BT >>)
        /\ ~Contains(text, LanguageTag)
        /\ ~Contains(text, CodeLine)

HeadingAndBold == JoinLines(<< HeadingLine, << >>, BoldLine >>)

BoldProse ==
    << "S", "o", "m", "e", " ", "b", "o", "l", "d", " ", "t", "e", "x", "t", "." >>

HeadingText == << "H", "e", "a", "d", "i", "n", "g" >>

\* C2: for a heading followed by a paragraph with inline emphasis, the
\* normalized text holds the paragraph's prose with the spaces between its
\* words and nothing of the heading.
C2_HeadingDroppedProseKept ==
    (Normalized /\ markdown_string = HeadingAndBold) =>
        /\ Contains(text, BoldProse)
        /\ ~Contains(text, HeadingText)

\* Plain prose whose lines end in a letter, so that every newline inside a
\* paragraph is one that line 72 is written to turn into a space.
PlainLines == { << >>, ProseLine }

IsPlainProse(segs) ==
    \A i \in 1..Len(segs) : segs[i].kind = "line" /\ segs[i].lines[1] \in PlainLines

RECURSIVE JoinWith(_, _)
JoinWith(parts, sep) ==
    IF parts = << >> THEN << >>
    ELSE IF Len(parts) = 1 THEN parts[1]
    ELSE parts[1] \o sep \o JoinWith(Tail(parts), sep)

\* The paragraphs of a list of plain lines: the runs of lines that are not
\* blank, each with its lines joined by one space.
RECURSIVE PlainParagraphs(_)
PlainParagraphs(lines) ==
    IF lines = << >> THEN << >>
    ELSE IF lines[1] = << >> THEN PlainParagraphs(Tail(lines))
    ELSE LET stop == First({ q \in 1..Len(lines) : lines[q] = << >> })
             n == IF stop = 0 THEN Len(lines) ELSE stop - 1
         IN  << JoinWith(SubSeq(lines, 1, n), << " " >>) >>
             \o PlainParagraphs(SubSeq(lines, n + 1, Len(lines)))

\* C3: for a document of plain prose paragraphs (here with lines that end in
\* a letter), the normalized text is the same prose with each line-wrap
\* newline inside a paragraph replaced by one space and each run of blank
\* lines collapsed, the paragraphs still being separated (by one newline).
C3_PlainProseKept ==
    (Normalized /\ IsPlainProse(world)) =>
        text = JoinWith(PlainParagraphs(SegmentLines(world)), << NL >>)

TableOnly == JoinLines(<< TableHeader, TableDelimiter, TableRow >>)

\* C4: for a document that holds only a pipe table, the normalized text is
\* empty or whitespace.
C4_TableRemoved ==
    (Normalized /\ markdown_string = TableOnly) => AllSpace(text)

-----------------------------------------------------------------------------
(* Properties of calculate_readability, under SpecScorer *)

Scored == prog = "score" /\ pc = "done"

\* C5: when the normalized text is empty or whitespace and every formula
\* answers its degenerate value 0, the composite is the degenerate score 0
\* (the function returns a number and has no other way to say that it could
\* not score), never an ordinary passing score.
C5_EmptyTextScoresZero ==
    (Scored /\ AllSpace(text) /\ scores = NoScores) => ScoreEquals(composite, 0)

Inverted == Metrics \ { "flesch_reading_ease" }

InRange(m, v) ==
    /\ Min2(MetricTable[m].min, MetricTable[m].max) <= v
    /\ v <= Max2(MetricTable[m].min, MetricTable[m].max)

-----------------------------------------------------------------------------
(* Properties of the gate and the history analysis, under Spec *)

\* C8: after any sequence of scoring calls, from the gate or from the history
\* analysis, the metric table holds the five entries with the weight, min and
\* max it started with.
C8_MetricTableUnchanged == readability_metrics = MetricTable

\* Two scoring calls have been made.
C8_Witness == Len(results) >= 2 /\ scores # NoScores

ShowFailed(i) ==
    /\ world.commits[i].date_ok
    /\ world.commits[i].show = "fail"
    /\ (i < idx \/ (i = idx /\ pc = "exited"))

\* C9: when git show fails for a commit, a warning is printed, the process
\* is not terminated, and the analysis returns entries for the remaining
\* commits and for the working tree.
C9_ShowFailureSkipsCommit ==
    (prog = "history" /\ world.git_ok /\ pc # "start") =>
        /\ \A i \in 1..Len(world.commits) :
             ShowFailed(i) => exit_status = Running /\ stderr # << >>
        /\ pc = "returned" =>
             /\ \A i \in 1..Len(world.commits) :
                  (world.commits[i].date_ok /\ world.commits[i].show = "ok") =>
                      \E k \in 1..Len(results) : results[k].commit = i
             /\ world.worktree.exists =>
                  \E k \in 1..Len(results) : results[k].commit = "STAGED"

StagedMarkdown == SelectSeq(world.staged, LAMBDA f : f.md)

Passes(f) == f.exists /\ ScoreAtLeast(CompositeScore(MetricTable, f.holds.raw), THRESHOLD)

FirstMissing == First({ i \in 1..Len(StagedMarkdown) : ~StagedMarkdown[i].exists })

\* What the exit of the gate is to be when the staged files were listed.
GateVerdict ==
    /\ exit_status \in {0, 1}
    /\ exit_status = 0 <=> \A i \in 1..Len(StagedMarkdown) : Passes(StagedMarkdown[i])
    /\ FirstMissing # 0 => (exit_status = 1 /\ Len(results) = FirstMissing - 1)
    /\ (FirstMissing = 0 /\ exit_status = 1) =>
         /\ Len(results) = Len(StagedMarkdown)
         /\ \E k \in 1..Len(results) : ScoreLess(results[k], THRESHOLD)

\* C10 as stated: the gate exits 0 if and only if every staged .md file can be
\* opened and scores at least 50; it exits 1 as soon as a staged file is
\* missing, and otherwise exits 1 only after all staged files were scored and
\* one scored below 50.
C10_GateExit == (prog = "gate" /\ pc = "exited") => GateVerdict

\* C10 amended: the same, when git lists the staged files; when git diff
\* fails the gate exits 1 before it checks any file.
C10_GateExitWhenListed ==
    (prog = "gate" /\ pc = "exited") =>
        IF world.git_ok THEN GateVerdict
        ELSE exit_status = 1 /\ results = << >>

\* The gate exits 1 after it scored three files, the first below the
\* threshold and a later one above it.
C10_Witness ==
    /\ prog = "gate"
    /\ pc = "exited"
    /\ exit_status = 1
    /\ Len(results) = 3
    /\ ScoreLess(results[1], THRESHOLD)
    /\ ScoreAtLeast(results[3], THRESHOLD)

=============================================================================
